---- MODULE Spec2Model ----
(***************************************************************************)
(* Model of the oncology-trials notebooks: the exploration notebook's load *)
(* cell and the feature-engineering notebook, cell by cell.                *)
(*                                                                         *)
(* A CSV file is a table of text fields ("" is an empty field).  A         *)
(* DataFrame is a record [idx, c]: idx is the row index (the labels of the *)
(* rows, in order) and c maps each column name to [dtype, v], v the cells  *)
(* of the column in row order.  A cell is one of                           *)
(*   [t |-> "nan"]                 NaN / None                              *)
(*   [t |-> "str", s |-> text]     a Python str                            *)
(*   [t |-> "num", h |-> k]        the number k/2 (halves keep the median  *)
(*                                 of an even count of integers exact)     *)
(*   [t |-> "ts", y, m, d]         a Timestamp at midnight                 *)
(*   [t |-> "nat"]                 NaT                                     *)
(***************************************************************************)
EXTENDS Integers, Sequences, FiniteSets, TLC

VARIABLES
    dir,            \* PROCESSED_DATA_DIR: file name -> [mtime, n, c]
    stage,          \* which notebook runs: "exploration" or "features"
    pc,             \* the next cell of the notebook to run
    error,          \* the exception that halted the run, or "none"
    df,             \* the loaded DataFrame
    df_clean,       \* the cleaned / augmented DataFrame
    df_modeling,    \* the modeling-ready DataFrame
    names,          \* notebook globals bound so far (text_length_cols, ...)
    clock,          \* the wall clock, in seconds, when last read
    latest_data_path, \* the file the load cell selected, "" before it ran
    run,            \* the number of the notebook run under way
    nb,             \* training notebook: its globals, name -> value
    saved           \* MODEL_DIR: the save_model calls made, in order

vars == <<dir, stage, pc, error, df, df_clean, df_modeling, names, clock,
          latest_data_path, run, nb, saved>>

----------------------------------------------------------------------------
(* Text *)

Ch(s, i) == SubSeq(s, i, i)

\* Characters in code-point order, as Python compares str values.
Alphabet == " ,-./0123456789:ABCDEFGHIJKLMNOPQRSTUVWXYZ_abcdefghijklmnopqrstuvwxyz"

Ord(c) == CHOOSE i \in 1..Len(Alphabet) : Ch(Alphabet, i) = c

Digits == "0123456789"

IsDigit(c) == \E i \in 1..Len(Digits) : Ch(Digits, i) = c

DigitVal(c) == (CHOOSE i \in 1..Len(Digits) : Ch(Digits, i) = c) - 1

AllDigits(s) == Len(s) > 0 /\ \A i \in 1..Len(s) : IsDigit(Ch(s, i))

RECURSIVE ParseNat(_)
ParseNat(s) ==
    IF Len(s) = 0 THEN 0
    ELSE ParseNat(SubSeq(s, 1, Len(s) - 1)) * 10 + DigitVal(Ch(s, Len(s)))

RECURSIVE NatToStr(_)
NatToStr(k) ==
    IF k < 10 THEN Ch(Digits, k + 1)
    ELSE NatToStr(k \div 10) \o Ch(Digits, (k % 10) + 1)

\* Python str comparison: first differing character decides, a proper
\* prefix sorts first.
StrLess(a, b) ==
    \E i \in 1..(Len(b)) :
        /\ \A j \in 1..(i - 1) : j <= Len(a) /\ Ch(a, j) = Ch(b, j)
        /\ \/ Len(a) = i - 1
           \/ Len(a) >= i /\ Ord(Ch(a, i)) < Ord(Ch(b, i))

\* pat in s (str.contains with a pattern free of regex metacharacters).
Contains(s, pat) ==
    \E i \in 1..(Len(s) - Len(pat) + 1) : SubSeq(s, i, i + Len(pat) - 1) = pat

StartsWith(s, pre) == Len(s) >= Len(pre) /\ SubSeq(s, 1, Len(pre)) = pre

EndsWith(s, suf) ==
    Len(s) >= Len(suf) /\ SubSeq(s, Len(s) - Len(suf) + 1, Len(s)) = suf

----------------------------------------------------------------------------
(* Cells *)

NaN == [t |-> "nan"]
NaT == [t |-> "nat"]
Str(s) == [t |-> "str", s |-> s]
Num(k) == [t |-> "num", h |-> 2 * k]
Half(h) == [t |-> "num", h |-> h]
Ts(y, m, d) == [t |-> "ts", y |-> y, m |-> m, d |-> d]

IsNull(x) == x.t \in {"nan", "nat"}
IsStr(x) == x.t = "str"
IsNum(x) == x.t = "num"
IsTs(x) == x.t = "ts"

----------------------------------------------------------------------------
(* Numbers and dates *)

IsIntText(s) ==
    \/ AllDigits(s)
    \/ Len(s) > 1 /\ Ch(s, 1) = "-" /\ AllDigits(SubSeq(s, 2, Len(s)))

ParseInt(s) ==
    IF Ch(s, 1) = "-" THEN 0 - ParseNat(SubSeq(s, 2, Len(s))) ELSE ParseNat(s)

\* A decimal text with one fractional digit, as str() of a float64 of the
\* model prints it (the numbers of the model are whole or half).
IsDecimalText(s) ==
    /\ Len(s) >= 3
    /\ SubSeq(s, Len(s) - 1, Len(s)) \in {".0", ".5"}
    /\ IsIntText(SubSeq(s, 1, Len(s) - 2))

IsNumText(s) == IsIntText(s) \/ IsDecimalText(s)

\* The number a text denotes, as a cell.
ParseNum(s) ==
    IF IsIntText(s) THEN [t |-> "num", h |-> 2 * ParseInt(s)]
    ELSE LET whole == SubSeq(s, 1, Len(s) - 2)
             frac == IF Ch(s, Len(s)) = "5" THEN 1 ELSE 0
         IN  IF Ch(s, 1) = "-"
             THEN [t |-> "num", h |-> 2 * ParseInt(whole) - frac]
             ELSE [t |-> "num", h |-> 2 * ParseInt(whole) + frac]

\* str() of a number: an int64 prints without a fraction, a float64 with one.
FormatNum(x, dtype) ==
    LET a == IF x.h < 0 THEN 0 - x.h ELSE x.h
        sign == IF x.h < 0 THEN "-" ELSE ""
    IN  IF dtype = "int64" THEN sign \o NatToStr(a \div 2)
        ELSE sign \o NatToStr(a \div 2) \o (IF a % 2 = 0 THEN ".0" ELSE ".5")

IsLeap(y) == (y % 4 = 0 /\ y % 100 # 0) \/ y % 400 = 0

DaysInMonth(y, m) ==
    IF m = 2 THEN (IF IsLeap(y) THEN 29 ELSE 28)
    ELSE IF m \in {4, 6, 9, 11} THEN 30 ELSE 31

RECURSIVE DaysBeforeMonth(_, _)
DaysBeforeMonth(y, m) ==
    IF m = 1 THEN 0 ELSE DaysBeforeMonth(y, m - 1) + DaysInMonth(y, m - 1)

\* The proleptic Gregorian ordinal of a date (day 1 is 0001-01-01).
Ordinal(x) ==
    LET p == x.y - 1
    IN  365 * p + (p \div 4) - (p \div 100) + (p \div 400)
          + DaysBeforeMonth(x.y, x.m) + x.d

\* Parsing of a 'YYYY-MM-DD' text; any other text, and a date that is not
\* on the calendar, does not parse.
ParseDate(s) ==
    IF /\ Len(s) = 10
       /\ Ch(s, 5) = "-" /\ Ch(s, 8) = "-"
       /\ AllDigits(SubSeq(s, 1, 4)) /\ AllDigits(SubSeq(s, 6, 7))
       /\ AllDigits(SubSeq(s, 9, 10))
    THEN LET y == ParseNat(SubSeq(s, 1, 4))
             m == ParseNat(SubSeq(s, 6, 7))
             d == ParseNat(SubSeq(s, 9, 10))
         IN  IF y >= 1 /\ m \in 1..12 /\ d >= 1 /\ d <= DaysInMonth(y, m)
             THEN Ts(y, m, d) ELSE NaT
    ELSE NaT

Pad(k, w) == IF w = 4 /\ k < 1000 THEN (IF k < 10 THEN "000" ELSE IF k < 100 THEN "00" ELSE "0") \o NatToStr(k)
             ELSE IF w = 2 /\ k < 10 THEN "0" \o NatToStr(k)
             ELSE NatToStr(k)

FormatDate(x) == Pad(x.y, 4) \o "-" \o Pad(x.m, 2) \o "-" \o Pad(x.d, 2)

----------------------------------------------------------------------------
(* Series *)

Range(f) == {f[i] : i \in DOMAIN f}

AnyNull(v) == \E i \in DOMAIN v : IsNull(v[i])

RECURSIVE Insert(_, _)
Insert(sorted, k) ==
    IF sorted = <<>> THEN <<k>>
    ELSE IF k <= Head(sorted) THEN <<k>> \o sorted
    ELSE <<Head(sorted)>> \o Insert(Tail(sorted), k)

RECURSIVE SortInts(_)
SortInts(q) == IF q = <<>> THEN <<>> ELSE Insert(SortInts(Tail(q)), Head(q))

\* Series.median(): NaN is skipped; the median of nothing is NaN; an even
\* count gives the mean of the two middle values.
Median(v) ==
    LET present == SelectSeq(v, LAMBDA x : ~IsNull(x))
        hs == SortInts([i \in 1..Len(present) |-> present[i].h])
        n == Len(hs)
    IN  IF n = 0 THEN NaN
        ELSE IF n % 2 = 1 THEN Half(hs[(n + 1) \div 2])
        ELSE Half((hs[n \div 2] + hs[(n \div 2) + 1]) \div 2)

Count(v, x) == Cardinality({i \in DOMAIN v : v[i] = x})

\* Series.mode()[0]: the most frequent non-null value, the smallest in sort
\* order when several are equally frequent.
Mode(v) ==
    LET present == {x \in Range(v) : ~IsNull(x)}
        top == {x \in present : \A y \in present : Count(v, y) <= Count(v, x)}
    IN  CHOOSE x \in top : \A y \in top : y = x \/ StrLess(x.s, y.s)

Fillna(v, x) == [i \in DOMAIN v |-> IF IsNull(v[i]) THEN x ELSE v[i]]

----------------------------------------------------------------------------
(* DataFrames *)

Columns(d) == DOMAIN d.c

NRows(d) == Len(d.idx)

SetColumn(d, name, col) == [d EXCEPT !.c = (name :> col) @@ d.c]

\* df[mask]: the rows whose mask is TRUE, index labels kept.
FilterRows(d, mask) ==
    LET keep == SelectSeq([i \in 1..NRows(d) |-> i], LAMBDA i : mask[i])
    IN  [idx |-> [k \in 1..Len(keep) |-> d.idx[keep[k]]],
         c |-> [name \in Columns(d) |->
                  [dtype |-> d.c[name].dtype,
                   v |-> [k \in 1..Len(keep) |-> d.c[name].v[keep[k]]]]]]

\* The texts pandas.read_csv reads as missing by default.
NaValues == {"", "#N/A", "N/A", "NA", "NULL", "NaN", "n/a", "nan", "null"}

\* Type inference of read_csv for one column of text fields: all missing
\* gives float64 NaN; all integers gives int64; all numbers, some of them
\* decimal or missing, gives float64; anything else gives an object column
\* of str and NaN.
ReadColumn(fields) ==
    LET given == {i \in DOMAIN fields : fields[i] \notin NaValues}
    IN  IF given = {} /\ Len(fields) > 0
        THEN [dtype |-> "float64", v |-> [i \in DOMAIN fields |-> NaN]]
        ELSE IF Len(fields) > 0 /\ \A i \in given : IsNumText(fields[i])
        THEN [dtype |-> IF given = DOMAIN fields
                            /\ \A i \in given : IsIntText(fields[i])
                        THEN "int64" ELSE "float64",
              v |-> [i \in DOMAIN fields |->
                       IF i \in given THEN ParseNum(fields[i]) ELSE NaN]]
        ELSE [dtype |-> "object",
              v |-> [i \in DOMAIN fields |->
                       IF i \in given THEN Str(fields[i]) ELSE NaN]]

ReadCsv(file) ==
    [idx |-> [i \in 1..file.n |-> i],
     c |-> [name \in DOMAIN file.c |-> ReadColumn(file.c[name])]]

----------------------------------------------------------------------------
(* Steps of a cell.  A cell runs its statements in order on the DataFrame;  *)
(* a statement that raises stops the cell and leaves the assignments made   *)
(* before it in place.  Ok / Raise are the outcome of a statement.          *)

Ok(d) == [d |-> d, err |-> "none"]

Raise(d, e) == [d |-> d, err |-> e]

Then(r, F(_)) == IF r.err # "none" THEN r ELSE F(r.d)

IsNumericDtype(dtype) == dtype \in {"int64", "float64"}

RECURSIVE FoldColumns(_, _, _)
\* for col in cols: d = F(d, col), the columns taken in any order (the
\* statements on different columns do not read each other's result).
FoldColumns(F(_, _), d, cols) ==
    IF cols = {} THEN d
    ELSE LET col == CHOOSE x \in cols : TRUE
         IN  FoldColumns(F, F(d, col), cols \ {col})

----------------------------------------------------------------------------
(* Data Preparation cell *)

\* pd.to_numeric(series, errors='coerce')
ToNumeric(col) ==
    IF col.dtype # "object" THEN col
    ELSE LET v == [i \in DOMAIN col.v |->
                     IF IsStr(col.v[i]) /\ IsNumText(col.v[i].s)
                     THEN ParseNum(col.v[i].s) ELSE NaN]
             whole == \A i \in DOMAIN col.v : IsStr(col.v[i]) /\ IsIntText(col.v[i].s)
         IN  [dtype |-> IF whole THEN "int64" ELSE "float64", v |-> v]

ConvertEnrollment(d) ==
    IF "EnrollmentCount" \notin Columns(d) THEN Raise(d, "KeyError")
    ELSE Ok(SetColumn(d, "EnrollmentCount", ToNumeric(d.c["EnrollmentCount"])))

\* Missing values filled with 0 instead of the median.
FillZero(d, col) ==
    IF AnyNull(d.c[col].v)
    THEN SetColumn(d, col, [dtype |-> d.c[col].dtype, v |-> Fillna(d.c[col].v, Num(0))])
    ELSE d

FillMedian(d, col) ==
    IF AnyNull(d.c[col].v)
    THEN SetColumn(d, col, [dtype |-> d.c[col].dtype,
                            v |-> Fillna(d.c[col].v, Median(d.c[col].v))])
    ELSE d

FillNumeric(d) ==
    Ok(FoldColumns(FillMedian, d,
                   {col \in Columns(d) : IsNumericDtype(d.c[col].dtype)}))

FillMode(d, col) ==
    IF AnyNull(d.c[col].v)
    THEN SetColumn(d, col, [dtype |-> "object",
                            v |-> Fillna(d.c[col].v, Mode(d.c[col].v))])
    ELSE d

FillCategorical(d) ==
    Ok(FoldColumns(FillMode, d,
                   {col \in Columns(d) : d.c[col].dtype = "object"}))

DataPreparation(d) ==
    Then(Then(ConvertEnrollment(d), FillNumeric), FillCategorical)

----------------------------------------------------------------------------
(* Temporal Features cell *)

date_columns == {"StartDate", "CompletionDate", "PrimaryCompletionDate"}

\* pd.to_datetime(series, errors='coerce'): a str parses or becomes NaT; a
\* number counts nanoseconds from 1970-01-01.
ToDatetime(col) ==
    [dtype |-> "datetime64",
     v |-> [i \in DOMAIN col.v |->
              LET x == col.v[i]
              IN  IF IsStr(x) THEN ParseDate(x.s)
                  ELSE IF IsNum(x) THEN Ts(1970, 1, 1)
                  ELSE IF IsTs(x) THEN x
                  ELSE NaT]]

ConvertDate(d, col) == SetColumn(d, col, ToDatetime(d.c[col]))

ConvertDates(d) == Ok(FoldColumns(ConvertDate, d, date_columns \cap Columns(d)))

\* The quarter computed from the month without the shift by one.
QuarterUnshifted(m) == (m \div 3) + 1

Quarter(m) == ((m - 1) \div 3) + 1

\* series.dt.<field>: NaT gives NaN, and the result is then float64.
DtField(col, F(_)) ==
    LET v == [i \in DOMAIN col.v |->
                IF IsTs(col.v[i]) THEN Num(F(col.v[i])) ELSE NaN]
    IN  [dtype |-> IF AnyNull(v) THEN "float64" ELSE "int64", v |-> v]

StartFeatures(d) ==
    IF "StartDate" \in Columns(d)
    THEN LET s == d.c["StartDate"]
             d1 == SetColumn(d, "start_year", DtField(s, LAMBDA x : x.y))
             d2 == SetColumn(d1, "start_month", DtField(s, LAMBDA x : x.m))
         IN  Ok(SetColumn(d2, "start_quarter",
                          DtField(s, LAMBDA x : Quarter(x.m))))
    ELSE Ok(d)

\* (CompletionDate - StartDate).dt.days
DaysBetween(completion, start) ==
    LET v == [i \in DOMAIN start.v |->
                IF IsTs(start.v[i]) /\ IsTs(completion.v[i])
                THEN Num(Ordinal(completion.v[i]) - Ordinal(start.v[i]))
                ELSE NaN]
    IN  [dtype |-> IF AnyNull(v) THEN "float64" ELSE "int64", v |-> v]

\* Negative durations kept when the median is taken (the fill done without
\* blanking them first).
NegativeToMedian(col) ==
    LET m == Median(col.v)
        v == [i \in DOMAIN col.v |->
                IF IsNum(col.v[i]) /\ col.v[i].h < 0 THEN m ELSE col.v[i]]
    IN  [dtype |-> col.dtype, v |-> v]

\* df.loc[df[col] < 0, col] = np.nan
NegativeToNaN(col) ==
    LET v == [i \in DOMAIN col.v |->
                IF IsNum(col.v[i]) /\ col.v[i].h < 0 THEN NaN ELSE col.v[i]]
    IN  [dtype |-> IF AnyNull(v) THEN "float64" ELSE col.dtype, v |-> v]

FillDuration(col) == [dtype |-> col.dtype, v |-> Fillna(col.v, Median(col.v))]

Duration(d) ==
    IF "trial_duration_days" \notin Columns(d) /\ "CompletionDate" \in Columns(d)
    THEN IF "StartDate" \notin Columns(d) THEN Raise(d, "KeyError")
         ELSE Ok(SetColumn(d, "trial_duration_days",
                   FillDuration(NegativeToNaN(
                       DaysBetween(d.c["CompletionDate"], d.c["StartDate"])))))
    ELSE Ok(d)

\* df[cols].describe() raises on an empty column list.
Describe(d, cols) == IF cols = {} THEN Raise(d, "ValueError") ELSE Ok(d)

DescribeTemporal(d) ==
    Describe(d, {col \in Columns(d) :
                   StartsWith(col, "start_") \/ col = "trial_duration_days"})

TemporalFeatures(d) ==
    Then(Then(Then(ConvertDates(d), StartFeatures), Duration), DescribeTemporal)

----------------------------------------------------------------------------
(* Categorical Features cell *)

\* The comparison result left as a bool (astype(int) dropped).
AsBool(b) == [t |-> "bool", b |-> b]

AsInt(b) == IF b THEN Num(1) ELSE Num(0)

\* (series == text).astype(int)
EqualsText(col, text) ==
    [dtype |-> "int64",
     v |-> [i \in DOMAIN col.v |-> AsInt(col.v[i] = Str(text))]]

\* series.str.match(pat, na=False).astype(int): the pattern anchored at the
\* start of the value.
MatchesText(col, pat) ==
    [dtype |-> "int64",
     v |-> [i \in DOMAIN col.v |->
              IF IsStr(col.v[i]) THEN AsInt(StartsWith(col.v[i].s, pat))
              ELSE AsInt(FALSE)]]

\* series.str.contains(pat, na=False).astype(int)
ContainsText(col, pat) ==
    [dtype |-> "int64",
     v |-> [i \in DOMAIN col.v |->
              IF IsStr(col.v[i]) THEN AsInt(Contains(col.v[i].s, pat))
              ELSE AsInt(FALSE)]]

\* The .str accessor exists on object columns only.
StrIndicator(d, source, name, pat) ==
    IF d.c[source].dtype # "object" THEN Raise(d, "AttributeError")
    ELSE Ok(SetColumn(d, name, ContainsText(d.c[source], pat)))

SponsorIndicator(d) ==
    IF "LeadSponsorClass" \in Columns(d)
    THEN Ok(SetColumn(d, "is_industry_sponsored",
                      EqualsText(d.c["LeadSponsorClass"], "INDUSTRY")))
    ELSE Ok(d)

PhaseIndicators(d) ==
    IF "Phase" \in Columns(d)
    THEN Then(Then(Then(StrIndicator(d, "Phase", "is_phase_1", "Phase 1"),
           LAMBDA e : StrIndicator(e, "Phase", "is_phase_2", "Phase 2")),
           LAMBDA e : StrIndicator(e, "Phase", "is_phase_3", "Phase 3")),
           LAMBDA e : StrIndicator(e, "Phase", "is_phase_4", "Phase 4"))
    ELSE Ok(d)

DesignIndicators(d) ==
    IF "StudyDesign" \in Columns(d)
    THEN Then(Then(Then(
           StrIndicator(d, "StudyDesign", "is_randomized", "Randomized"),
           LAMBDA e : StrIndicator(e, "StudyDesign", "is_double_blind", "Double Blind")),
           LAMBDA e : StrIndicator(e, "StudyDesign", "is_single_blind", "Single Blind")),
           LAMBDA e : StrIndicator(e, "StudyDesign", "is_open_label", "Open Label"))
    ELSE Ok(d)

CountryIndicators(d) ==
    IF "LocationCountry" \in Columns(d)
    THEN Then(StrIndicator(d, "LocationCountry", "is_multi_country", ","),
           LAMBDA e : StrIndicator(e, "LocationCountry", "has_us_sites", "United States"))
    ELSE Ok(d)

DescribeBinary(d) ==
    Describe(d, {col \in Columns(d) :
                   StartsWith(col, "is_") \/ StartsWith(col, "has_")})

CategoricalFeatures(d) ==
    Then(Then(Then(Then(SponsorIndicator(d), PhaseIndicators), DesignIndicators),
              CountryIndicators), DescribeBinary)

----------------------------------------------------------------------------
(* Text Features cell *)

text_columns == {"BriefTitle", "BriefSummary", "DetailedDescription"}

available_text_columns(d) == text_columns \cap Columns(d)

\* series.fillna('').astype(str).apply(len)
TextLength(col) ==
    [dtype |-> "int64",
     v |-> [i \in DOMAIN col.v |->
              LET x == col.v[i]
              IN  IF IsStr(x) THEN Num(Len(x.s))
                  ELSE IF IsNum(x) THEN Num(Len(FormatNum(x, col.dtype)))
                  ELSE Num(0)]]

AddLength(d, col) == SetColumn(d, col \o "_length", TextLength(d.c[col]))

\* df_clean[col].iloc[0] of the sample print raises on a table without rows.
TextFeatures(d) ==
    IF available_text_columns(d) = {} THEN Ok(d)
    ELSE IF NRows(d) = 0 THEN Raise(d, "IndexError")
    ELSE Ok(FoldColumns(AddLength, d, available_text_columns(d)))

----------------------------------------------------------------------------
(* Target Variable Creation cell *)

\* The status list of the training notebook's filter used in place of the
\* feature-engineering one.
completed_or_terminated == {"Completed", "Terminated"}

completed_statuses == {"Completed", "Terminated", "Suspended", "Withdrawn"}

\* series.isin(completed_statuses)
IsIn(col, texts) == [i \in DOMAIN col.v |-> IsStr(col.v[i]) /\ col.v[i].s \in texts]

CreatesTarget(d) ==
    "completion_status" \notin Columns(d) /\ "OverallStatus" \in Columns(d)

\* df_clean after the cell.
TargetClean(d) ==
    IF CreatesTarget(d)
    THEN SetColumn(d, "completion_status", EqualsText(d.c["OverallStatus"], "Completed"))
    ELSE d

\* df_modeling after the cell.
TargetModeling(d) ==
    IF CreatesTarget(d)
    THEN FilterRows(TargetClean(d), IsIn(d.c["OverallStatus"], completed_statuses))
    ELSE d

----------------------------------------------------------------------------
(* The transform: the cells from Data Preparation to Prepare Modeling       *)
(* Dataset run in order on a loaded table.  clean is df_clean and modeling  *)
(* is df_modeling when the cells have run; err is the exception that        *)
(* stopped them, or "none".                                                 *)

FeatureEngineering(d) ==
    LET r == Then(Then(Then(DataPreparation(d), TemporalFeatures),
                       CategoricalFeatures), TextFeatures)
        clean == TargetClean(r.d)
        modeling == TargetModeling(r.d)
        unbound == /\ "completion_status" \notin Columns(modeling)
                   /\ "trial_duration_days" \in Columns(modeling)
                   /\ available_text_columns(r.d) = {}
    IN  IF r.err # "none"
        THEN [clean |-> r.d, modeling |-> [idx |-> <<>>, c |-> <<>>], err |-> r.err]
        ELSE [clean |-> clean, modeling |-> modeling,
              err |-> IF unbound THEN "NameError" ELSE "none"]

----------------------------------------------------------------------------
(* Save Modeling-Ready Dataset cell *)

\* DataFrame.to_csv(index=False): missing values are written as empty
\* fields, dates as YYYY-MM-DD.
FormatCell(x, dtype) ==
    IF IsStr(x) THEN x.s
    ELSE IF IsNum(x) THEN FormatNum(x, dtype)
    ELSE IF IsTs(x) THEN FormatDate(x)
    ELSE ""

ToCsv(d, mtime) ==
    [mtime |-> mtime,
     n |-> NRows(d),
     c |-> [name \in Columns(d) |->
              [i \in 1..NRows(d) |-> FormatCell(d.c[name].v[i], d.c[name].dtype)]]]

----------------------------------------------------------------------------
(* Files *)

ProcessedPrefix == "processed_oncology_trials_"

ModelingPrefix == "oncology_trials_modeling_ready_"

\* The pattern "*.csv" without the prefix.
GlobAnyCsv(d, prefix) == {f \in DOMAIN d : EndsWith(f, ".csv")}

\* Path.glob("*oncology_trials_*.csv"): the pattern without its stage
\* prefix.
GlobAnyStage(d, prefix) ==
    {f \in DOMAIN d : EndsWith(f, ".csv") /\ Contains(f, "oncology_trials_")}

\* Path.glob(prefix + "*.csv")
Glob(d, prefix) ==
    {f \in DOMAIN d : /\ Len(f) >= Len(prefix) + Len(".csv")
                      /\ StartsWith(f, prefix)
                      /\ EndsWith(f, ".csv")}

\* csv_files.sort(key=mtime, reverse=True)[0]: a file of the latest
\* modification time (any of them when several share it).
Latest(d, fs) == {f \in fs : \A g \in fs : d[g].mtime <= d[f].mtime}

\* datetime.now().strftime("%Y%m%d_%H%M%S"), the clock counting the seconds
\* of 2024-01-01.
Timestamp(t) ==
    "20240101_" \o Pad(t \div 3600, 2) \o Pad((t \div 60) % 60, 2) \o Pad(t % 60, 2)

modeling_file_path(t) == ModelingPrefix \o Timestamp(t) \o ".csv"

----------------------------------------------------------------------------
(* Input tables *)

MaxRows == 2

MaxStatusRows == 3

MaxEnrollmentRows == 4

MaxClock == 2

NoFrame == [idx |-> <<>>, c |-> <<>>]

Const(n, text) == [i \in 1..n |-> text]

\* Columns every input table of the families below carries, so that the run
\* reaches the later cells.
BaseColumns(n) ==
    [name \in {"nct_id", "EnrollmentCount", "StartDate", "LeadSponsorClass",
                "OverallStatus"} |->
       CASE name = "nct_id" -> [i \in 1..n |-> "NCT0000000" \o NatToStr(i)]
         [] name = "EnrollmentCount" -> Const(n, "50")
         [] name = "StartDate" -> Const(n, "2020-01-01")
         [] name = "LeadSponsorClass" -> Const(n, "INDUSTRY")
         [] name = "OverallStatus" -> Const(n, "Completed")]

CsvFile(n, columns) == [mtime |-> 0, n |-> n, c |-> columns]

StatusFields == {"Completed", "Terminated", "Suspended", "Withdrawn", "Recruiting", ""}

\* OverallStatus varied; with and without a completion_status column
\* already in the file.
StatusTablesOf(n) ==
    UNION {{CsvFile(n, ("OverallStatus" :> f) @@ BaseColumns(n)),
            CsvFile(n, ("OverallStatus" :> f) @@ ("completion_status" :> Const(n, "1"))
                         @@ BaseColumns(n))}
           : f \in [1..n -> StatusFields]}

StatusTables == UNION {StatusTablesOf(n) : n \in 1..MaxStatusRows}

StartFields == {"2020-01-01", "2020-12-31", "2020-02-30", ""}

CompletionFields == {"2020-04-10", "2021-01-01", ""}

DateTablesOf(n) ==
    {CsvFile(n, ("StartDate" :> s) @@ ("CompletionDate" :> c) @@ BaseColumns(n))
       : s \in [1..n -> StartFields], c \in [1..n -> CompletionFields]}

DateTables == UNION {DateTablesOf(n) : n \in 1..MaxRows}

EnrollmentFields == {"10", "20", "40", "", "abc"}

EnrollmentTablesOf(n) ==
    {CsvFile(n, ("EnrollmentCount" :> e) @@ BaseColumns(n))
       : e \in [1..n -> EnrollmentFields]}

EnrollmentTables == UNION {EnrollmentTablesOf(n) : n \in 1..MaxEnrollmentRows}

DurationFields == {"100", "-5", ""}

\* A trial_duration_days column already in the file, beside the dates.
DurationTablesOf(n) ==
    {CsvFile(n, ("trial_duration_days" :> f) @@ ("CompletionDate" :> Const(n, "2020-04-10"))
                  @@ BaseColumns(n))
       : f \in [1..n -> DurationFields]}

DurationTables == UNION {DurationTablesOf(n) : n \in 1..MaxRows}

TitleFields == {"Trial A", "B", "123", ""}

SummaryFields == {"A phase 2 study", ""}

TextTablesOf(n) ==
    {CsvFile(n, ("BriefTitle" :> t) @@ ("BriefSummary" :> u) @@ BaseColumns(n))
       : t \in [1..n -> TitleFields], u \in [1..n -> SummaryFields]}

TextTables == UNION {TextTablesOf(n) : n \in 1..MaxRows}

PhaseFields == {"Phase 1", "Phase 1/Phase 2", "phase 3", "Phase 4", "N/A"}

DesignFields ==
    {"Randomized, Double Blind", "Non-Randomized, Open Label", "Single Blind", ""}

CountryFields == {"United States", "United States, Canada", "Germany", ""}

SponsorFields == {"INDUSTRY", "NIH", "Industry", ""}

\* One categorical source column varied at a time.
CategoryTablesOf(n) ==
    {CsvFile(n, ("Phase" :> f) @@ BaseColumns(n)) : f \in [1..n -> PhaseFields]}
    \cup {CsvFile(n, ("StudyDesign" :> f) @@ BaseColumns(n)) : f \in [1..n -> DesignFields]}
    \cup {CsvFile(n, ("LocationCountry" :> f) @@ BaseColumns(n)) : f \in [1..n -> CountryFields]}
    \cup {CsvFile(n, ("LeadSponsorClass" :> f) @@ BaseColumns(n)) : f \in [1..n -> SponsorFields]}

CategoryTables == UNION {CategoryTablesOf(n) : n \in 1..MaxRows}

OptionalColumns ==
    {"EnrollmentCount", "StartDate", "CompletionDate", "Phase", "StudyDesign",
     "LocationCountry", "LeadSponsorClass", "OverallStatus",
     "BriefTitle", "BriefSummary", "DetailedDescription"}

\* A two-row table with every optional column filled in.
FullColumns ==
    [name \in OptionalColumns \cup {"nct_id"} |->
       CASE name = "nct_id" -> <<"NCT00000001", "NCT00000002">>
         [] name = "EnrollmentCount" -> <<"120", "45">>
         [] name = "StartDate" -> <<"2020-01-01", "2019-06-15">>
         [] name = "CompletionDate" -> <<"2020-04-10", "2021-06-15">>
         [] name = "Phase" -> <<"Phase 2", "Phase 1/Phase 2">>
         [] name = "StudyDesign" -> <<"Randomized, Double Blind", "Open Label">>
         [] name = "LocationCountry" -> <<"United States, Canada", "Germany">>
         [] name = "LeadSponsorClass" -> <<"INDUSTRY", "OTHER">>
         [] name = "OverallStatus" -> <<"Completed", "Recruiting">>
         [] name = "BriefTitle" -> <<"Trial A", "Trial B">>
         [] name = "BriefSummary" -> <<"A phase 2 study", "A pilot">>
         [] name = "DetailedDescription" -> <<"Details", "More details">>]

\* Every subset of the optional columns absent from the file.
ColumnTables ==
    {CsvFile(2, [name \in present \cup {"nct_id"} |-> FullColumns[name]])
       : present \in SUBSET OptionalColumns}

InputTables ==
    StatusTables \cup DateTables \cup DurationTables \cup EnrollmentTables
        \cup TextTables \cup CategoryTables \cup ColumnTables

ProcessedName(k) == ProcessedPrefix \o "2023123" \o NatToStr(k) \o "_120000.csv"

\* The processed-data directory before the run: empty; holding only an
\* earlier modeling-ready snapshot; holding one processed file; holding two
\* processed files of different or equal modification times.
InitialDirs ==
    {<<>>}
    \cup {modeling_file_path(0) :> CsvFile(2, FullColumns)}
    \cup {ProcessedName(1) :> t : t \in InputTables}
    \cup {(ProcessedName(0) :> CsvFile(2, FullColumns))
            @@ (ProcessedName(1) :> [CsvFile(1, BaseColumns(1)) EXCEPT !.mtime = m])
            @@ (modeling_file_path(0) :> CsvFile(2, FullColumns))
          : m \in {0, 1}}

----------------------------------------------------------------------------
(* The notebooks, cell by cell *)

\* A notebook of one of the stages starts in a fresh kernel on one of the
\* directories.
Start(dirs, stages) ==
    /\ dir \in dirs
    /\ stage \in stages
    /\ pc = "load"
    /\ error = "none"
    /\ df = NoFrame
    /\ df_clean = NoFrame
    /\ df_modeling = NoFrame
    /\ names = {}
    /\ clock = 1
    /\ latest_data_path = ""
    /\ run = 1
    /\ nb = <<>>
    /\ saved = <<>>

Init == Start(InitialDirs, {"exploration", "features"})

Halt(e) == pc' = "halted" /\ error' = e

\* The load cell of both notebooks.
LoadData ==
    /\ pc = "load"
    /\ stage \in {"exploration", "features"}
    /\ LET csv_files == Glob(dir, ProcessedPrefix)
       IN  IF csv_files = {}
           THEN /\ Halt("FileNotFoundError")
                /\ df' = df
                /\ latest_data_path' = latest_data_path
           ELSE \E f \in Latest(dir, csv_files) :
                  /\ latest_data_path' = f
                  /\ df' = ReadCsv(dir[f])
                  /\ pc' = IF stage = "exploration" THEN "plots" ELSE "prepare"
                  /\ error' = error
    /\ UNCHANGED <<dir, stage, df_clean, df_modeling, names, clock, run, nb, saved>>

\* The exploration notebook's remaining cells only display the table.
ExplorationPlots ==
    /\ pc = "plots"
    /\ pc' = "done"
    /\ UNCHANGED <<dir, stage, error, df, df_clean, df_modeling, names, clock, latest_data_path, run, nb, saved>>

\* A cell that transforms df_clean: r is the outcome of its statements.
RunCell(r, next) ==
    /\ df_clean' = r.d
    /\ IF r.err = "none" THEN pc' = next /\ error' = error ELSE Halt(r.err)

DataPreparationCell ==
    /\ pc = "prepare"
    /\ RunCell(DataPreparation(df), "temporal")
    /\ UNCHANGED <<dir, stage, df, df_modeling, names, clock, latest_data_path, run, nb, saved>>

TemporalFeaturesCell ==
    /\ pc = "temporal"
    /\ RunCell(TemporalFeatures(df_clean), "categorical")
    /\ UNCHANGED <<dir, stage, df, df_modeling, names, clock, latest_data_path, run, nb, saved>>

CategoricalFeaturesCell ==
    /\ pc = "categorical"
    /\ RunCell(CategoricalFeatures(df_clean), "text")
    /\ UNCHANGED <<dir, stage, df, df_modeling, names, clock, latest_data_path, run, nb, saved>>

TextFeaturesCell ==
    /\ pc = "text"
    /\ RunCell(TextFeatures(df_clean), "target")
    /\ names' = IF available_text_columns(df_clean) # {} /\ NRows(df_clean) > 0
                THEN names \cup {"text_length_cols"} ELSE names
    /\ UNCHANGED <<dir, stage, df, df_modeling, clock, latest_data_path, run, nb, saved>>

TargetCreationCell ==
    /\ pc = "target"
    /\ df_clean' = TargetClean(df_clean)
    /\ df_modeling' = TargetModeling(df_clean)
    /\ pc' = "dataset"
    /\ UNCHANGED <<dir, stage, error, df, names, clock, latest_data_path, run, nb, saved>>

\* Prepare Modeling Dataset cell: text_length_cols is assigned in the
\* completion_status branch and read in the trial_duration_days branch.
PrepareDatasetCell ==
    /\ pc = "dataset"
    /\ LET bound == IF "completion_status" \in Columns(df_modeling)
                    THEN names \cup {"text_length_cols"} ELSE names
       IN  /\ names' = bound
           /\ IF /\ "trial_duration_days" \in Columns(df_modeling)
                 /\ "text_length_cols" \notin bound
              THEN Halt("NameError")
              ELSE pc' = "save" /\ error' = error
    /\ UNCHANGED <<dir, stage, df, df_clean, df_modeling, clock, latest_data_path, run, nb, saved>>

\* Save cell: the file name carries the second the cell runs in; to_csv
\* creates the file or replaces the file of that name.
SaveCell ==
    /\ pc = "save"
    /\ \E now \in clock..MaxClock :
         /\ clock' = now
         /\ dir' = [f \in DOMAIN dir \cup {modeling_file_path(now)} |->
                      IF f = modeling_file_path(now) THEN ToCsv(df_modeling, now)
                      ELSE dir[f]]
    /\ pc' = "done"
    /\ UNCHANGED <<stage, error, df, df_clean, df_modeling, names, latest_data_path, run, nb, saved>>

Next ==
    \/ LoadData
    \/ ExplorationPlots
    \/ DataPreparationCell
    \/ TemporalFeaturesCell
    \/ CategoricalFeaturesCell
    \/ TextFeaturesCell
    \/ TargetCreationCell
    \/ PrepareDatasetCell
    \/ SaveCell

Spec == Init /\ [][Next]_vars

----------------------------------------------------------------------------
(* Runs in sequence.  A stage runs to completion or halts; the operator    *)
(* then runs the notebook again from the top, in a fresh kernel, on the    *)
(* directory as the earlier runs left it.                                  *)

MaxRuns == 2

RunAgain ==
    /\ pc \in {"done", "halted"}
    /\ stage \in {"exploration", "features"}
    /\ run < MaxRuns
    /\ run' = run + 1
    /\ pc' = "load"
    /\ error' = "none"
    /\ df' = NoFrame
    /\ df_clean' = NoFrame
    /\ df_modeling' = NoFrame
    /\ names' = {}
    /\ latest_data_path' = ""
    /\ UNCHANGED <<dir, stage, clock, nb, saved>>

\* The directories the runs in sequence start from: the tables of one row
\* with the status or the dates varied, and the directories without a
\* table or with several files.
RunDirs ==
    {<<>>}
    \cup {modeling_file_path(0) :> CsvFile(2, FullColumns)}
    \cup {ProcessedName(1) :> t : t \in StatusTablesOf(1) \cup DateTablesOf(1)}
    \cup {(ProcessedName(0) :> CsvFile(2, FullColumns))
            @@ (ProcessedName(1) :> [CsvFile(1, BaseColumns(1)) EXCEPT !.mtime = m])
            @@ (modeling_file_path(0) :> CsvFile(2, FullColumns))
          : m \in {0, 1}}

InitRuns == Start(RunDirs, {"exploration", "features"})

NextRuns == Next \/ RunAgain

SpecRuns == InitRuns /\ [][NextRuns]_vars

----------------------------------------------------------------------------
(* Two tables with one trial in common.  The run loads the later file; the *)
(* earlier file holds a table with the same columns and the same first     *)
(* row.                                                                    *)

MaxPairRows == 2

PairTables ==
    UNION {TextTablesOf(n) \cup DateTablesOf(n) \cup StatusTablesOf(n)
             \cup CategoryTablesOf(n) : n \in 1..MaxPairRows}

SameTrial(a, b) ==
    /\ DOMAIN a.c = DOMAIN b.c
    /\ \A name \in DOMAIN a.c : a.c[name][1] = b.c[name][1]

PairDirs ==
    {(ProcessedName(0) :> p[2]) @@ (ProcessedName(1) :> [p[1] EXCEPT !.mtime = 1])
       : p \in {p \in PairTables \X PairTables : SameTrial(p[1], p[2])}}

InitPairs == Start(PairDirs, {"exploration", "features"})

SpecPairs == InitPairs /\ [][Next]_vars

----------------------------------------------------------------------------
(* Model training notebook.  The functions it imports from                  *)
(* src.models.train_model (load_modeling_data, train_classification_models, *)
(* train_regression_models, save_model) are modelled from the               *)
(* specification; the cells are the notebook's.  The cells that only plot   *)
(* are left out.                                                            *)

classification_target == "is_completed"

regression_target == "duration_days"

exclude_cols == {"nct_id", "overall_status", classification_target, regression_target}

\* df[cols]
SelectColumns(d, cols) == [idx |-> d.idx, c |-> [name \in cols |-> d.c[name]]]

\* The candidates of a task, in the order they are enumerated.
Candidates(task) ==
    IF task = "classification"
    THEN <<"logistic_regression", "random_forest", "gradient_boosting">>
    ELSE <<"linear_regression", "random_forest", "gradient_boosting">>

SelectionMetric(task) == IF task = "classification" THEN "f1_score" ELSE "r2_score"

\* Scores on the held-out split, in hundredths.
ScoreValues == {60, 80}

\* The metrics of the candidates as the notebook tabulates them: one row a
\* candidate, in enumeration order.
MetricRows(task, score) ==
    [k \in 1..Len(Candidates(task)) |->
       IF task = "classification"
       THEN [name |-> Candidates(task)[k], accuracy |-> 50 + k,
             precision |-> score[k], recall |-> score[k], f1_score |-> score[k]]
       ELSE [name |-> Candidates(task)[k], r2_score |-> score[k],
             mae |-> 10 + k, rmse |-> 20 + k]]

\* What a training call returns for one outcome of the fits.
TrainResults(task, X, score) ==
    [metrics |-> MetricRows(task, score),
     models |-> [name \in Range(Candidates(task)) |->
                   [estimator |-> name, task |-> task]],
     preprocessor |-> [fitted_for |-> task, columns |-> Columns(X)]]

Fitted(task, X) ==
    {[err |-> "none", results |-> TrainResults(task, X, score)]
       : score \in [1..Len(Candidates(task)) -> ScoreValues]}

Failed(e) == [err |-> e, results |-> <<>>]

\* train_classification_models(X, y): empty input fails; a class without a
\* member in one of the two splits fails, which a class of fewer than two
\* rows makes certain and the split decides otherwise.
train_classification_models(X, y) ==
    IF NRows(X) = 0 THEN {Failed("EmptyDataset")}
    ELSE IF \E cls \in {0, 1} : Cardinality({i \in DOMAIN y.v : y.v[i] = Num(cls)}) < 2
    THEN {Failed("DataInsufficiency")}
    ELSE {Failed("DataInsufficiency")} \cup Fitted("classification", X)

\* train_regression_models(X, y): empty input fails; a missing target value
\* makes the estimators' fit raise, and the failure propagates unchanged.
train_regression_models(X, y) ==
    IF NRows(X) = 0 THEN {Failed("EmptyDataset")}
    ELSE IF AnyNull(y.v) THEN {Failed("ValueError")}
    ELSE Fitted("regression", X)

\* The metrics table sorted with the smallest value first.
SortValuesAscending(rows, by) ==
    {[k \in 1..Len(rows) |-> rows[q[k]]] :
       q \in {q \in [1..Len(rows) -> 1..Len(rows)] :
                /\ \A i, j \in 1..Len(rows) : i # j => q[i] # q[j]
                /\ \A i, j \in 1..Len(rows) : i < j => rows[q[i]][by] <= rows[q[j]][by]}}

\* metrics.sort_values(by, ascending=False): the algorithm is the default
\* quicksort, which does not promise the order of equal values; every
\* descending order is a possible result.
SortValues(rows, by) ==
    {[k \in 1..Len(rows) |-> rows[q[k]]] :
       q \in {q \in [1..Len(rows) -> 1..Len(rows)] :
                /\ \A i, j \in 1..Len(rows) : i # j => q[i] # q[j]
                /\ \A i, j \in 1..Len(rows) : i < j => rows[q[i]][by] >= rows[q[j]][by]}}

\* metrics.loc[name].to_dict()
MetricsOf(rows, name) ==
    LET row == rows[CHOOSE k \in DOMAIN rows : rows[k].name = name]
    IN  [m \in DOMAIN row \ {"name"} |-> row[m]]

\* The record with the model of the first candidate enumerated.
model_info_first_model(results, metrics, best_name, cols) ==
    [model |-> results.models[results.metrics[1].name],
     preprocessor |-> results.preprocessor,
     feature_names |-> cols,
     metrics |-> MetricsOf(metrics, best_name)]

model_info(results, metrics, best_name, cols) ==
    [model |-> results.models[best_name],
     preprocessor |-> results.preprocessor,
     feature_names |-> cols,
     metrics |-> MetricsOf(metrics, best_name)]

\* save_model(model_info, key)
save_model(info, key) == saved' = Append(saved, [key |-> key, info |-> info])

\* load_modeling_data(): the latest modeling-ready file of the processed
\* data directory.
LoadModelingData ==
    /\ pc = "load"
    /\ stage = "training"
    /\ LET csv_files == Glob(dir, ModelingPrefix)
       IN  IF csv_files = {}
           THEN /\ Halt("FileNotFoundError")
                /\ UNCHANGED <<df_modeling, nb>>
           ELSE \E f \in Latest(dir, csv_files) :
                  /\ df_modeling' = ReadCsv(dir[f])
                  /\ nb' = ("modeling_path" :> f)
                  /\ pc' = "features_targets"
                  /\ error' = error
    /\ UNCHANGED <<dir, stage, df, df_clean, names, clock, latest_data_path, run, saved>>

\* df_modeling[df_modeling['overall_status'] == 'Completed']
CompletedRows(d) ==
    FilterRows(d, [i \in 1..NRows(d) |-> d.c["overall_status"].v[i] = Str("Completed")])

\* The filter on Completed / Terminated and the is_completed column.
ClassificationRows(d) ==
    LET rows == FilterRows(d, IsIn(d.c["overall_status"], completed_or_terminated))
    IN  SetColumn(rows, classification_target,
                  EqualsText(rows.c["overall_status"], "Completed"))

\* Prepare Features and Target Variables cell.  The statements run in
\* order; a column read by name that the table lacks raises KeyError and
\* the names bound before it stay bound.
FeaturesAndTargetsCell ==
    /\ pc = "features_targets"
    /\ IF "overall_status" \notin Columns(df_modeling)
       THEN Halt("KeyError") /\ nb' = nb
       ELSE LET df_classification == ClassificationRows(df_modeling)
                df_regression == CompletedRows(df_modeling)
                feature_cols == Columns(df_modeling) \ exclude_cols
                bound == ("df_classification" :> df_classification)
                           @@ ("df_regression" :> df_regression)
                           @@ ("feature_cols" :> feature_cols)
                           @@ ("X_classification" :>
                                 SelectColumns(df_classification, feature_cols))
                           @@ ("y_classification" :>
                                 df_classification.c[classification_target])
                           @@ ("X_regression" :>
                                 SelectColumns(df_regression, feature_cols))
                           @@ nb
            IN  IF regression_target \notin Columns(df_regression)
                THEN Halt("KeyError") /\ nb' = bound
                ELSE /\ nb' = ("y_regression" :> df_regression.c[regression_target])
                                @@ bound
                     /\ pc' = "classification"
                     /\ error' = error
    /\ UNCHANGED <<dir, stage, df, df_clean, df_modeling, names, clock,
                   latest_data_path, run, saved>>

\* A training cell that leaves the saving of its best model to a later
\* cell.
TrainCellSavedLater(task, outcomes, next) ==
    \E out \in outcomes :
      IF out.err # "none"
      THEN Halt(out.err) /\ UNCHANGED <<nb, saved>>
      ELSE \E metrics \in SortValues(out.results.metrics, SelectionMetric(task)) :
             LET best_name == metrics[1].name
                 info == model_info(out.results, metrics, best_name,
                                    nb["feature_cols"])
             IN  /\ nb' = ((task \o "_results") :> out.results)
                            @@ ((task \o "_metrics") :> metrics)
                            @@ (("best_" \o task \o "_model_name") :> best_name)
                            @@ ("model_info" :> info)
                            @@ nb
                 /\ saved' = saved
                 /\ pc' = next
                 /\ error' = error

\* A training cell: train, tabulate and sort the metrics, take the first
\* row as the best model, save it under the task's key.
TrainCell(task, outcomes, next) ==
    \E out \in outcomes :
      IF out.err # "none"
      THEN Halt(out.err) /\ UNCHANGED <<nb, saved>>
      ELSE \E metrics \in SortValues(out.results.metrics, SelectionMetric(task)) :
             LET best_name == metrics[1].name
                 info == model_info(out.results, metrics, best_name,
                                    nb["feature_cols"])
             IN  /\ nb' = ((task \o "_results") :> out.results)
                            @@ ((task \o "_metrics") :> metrics)
                            @@ (("best_" \o task \o "_model_name") :> best_name)
                            @@ ("model_info" :> info)
                            @@ nb
                 /\ save_model(info, task)
                 /\ pc' = next
                 /\ error' = error

TrainClassificationCell ==
    /\ pc = "classification"
    /\ TrainCell("classification",
                 train_classification_models(nb["X_classification"],
                                             nb["y_classification"]),
                 "regression")
    /\ UNCHANGED <<dir, stage, df, df_clean, df_modeling, names, clock,
                   latest_data_path, run>>

TrainRegressionCell ==
    /\ pc = "regression"
    /\ TrainCell("regression",
                 train_regression_models(nb["X_regression"], nb["y_regression"]),
                 "done")
    /\ UNCHANGED <<dir, stage, df, df_clean, df_modeling, names, clock,
                   latest_data_path, run>>

\* The stages run in sequence, each in a fresh kernel on the directory the
\* stage before it left.
NextStage ==
    /\ pc = "done"
    /\ stage \in {"exploration", "features"}
    /\ stage' = IF stage = "exploration" THEN "features" ELSE "training"
    /\ pc' = "load"
    /\ df' = NoFrame
    /\ df_clean' = NoFrame
    /\ df_modeling' = NoFrame
    /\ names' = {}
    /\ latest_data_path' = ""
    /\ nb' = <<>>
    /\ UNCHANGED <<dir, error, clock, run, saved>>

MaxTrainRows == 4

TrainStatusFields == {"Completed", "Terminated", "Suspended", "Recruiting"}

\* A modeling-ready table under the column names the training notebook
\* reads.
TrainColumns(n, status) ==
    [name \in {"nct_id", "overall_status", "duration_days", "enrollment"} |->
       CASE name = "nct_id" -> [i \in 1..n |-> "NCT0000000" \o NatToStr(i)]
         [] name = "overall_status" -> status
         [] name = "duration_days" -> Const(n, "100")
         [] name = "enrollment" -> Const(n, "50")]

TrainTables ==
    UNION {{CsvFile(n, TrainColumns(n, f)) : f \in [1..n -> TrainStatusFields]}
             : n \in 0..MaxTrainRows}
    \cup {CsvFile(4, [name \in {"nct_id", "overall_status"} |->
                        TrainColumns(4, <<"Completed", "Completed",
                                          "Terminated", "Terminated">>)[name]])}
    \cup {CsvFile(4, ("duration_days" :> <<"100", "", "100", "100">>)
                       @@ TrainColumns(4, <<"Completed", "Completed",
                                            "Terminated", "Terminated">>))}

\* A processed table that carries the training notebook's column names
\* beside the feature-engineering ones.
BothNamesTable ==
    CsvFile(4, ("overall_status" :> <<"Completed", "Completed", "Terminated", "Terminated">>)
                 @@ ("duration_days" :> Const(4, "100"))
                 @@ BaseColumns(4))

TrainDirs ==
    {<<>>}
    \cup {modeling_file_path(0) :> t : t \in TrainTables}
    \cup {ProcessedName(1) :> t : t \in StatusTablesOf(1) \cup {BothNamesTable}}

InitTrain == Start(TrainDirs, {"exploration", "features", "training"})

NextTrain ==
    \/ Next
    \/ NextStage
    \/ LoadModelingData
    \/ FeaturesAndTargetsCell
    \/ TrainClassificationCell
    \/ TrainRegressionCell

SpecTrain == InitTrain /\ [][NextTrain]_vars

----------------------------------------------------------------------------
(* Properties *)

DefinitiveOutcomes == {"Completed", "Terminated", "Suspended", "Withdrawn"}

Definitive(x) == IsStr(x) /\ x.s \in DefinitiveOutcomes

\* The feature-engineering run has written its snapshot.
SnapshotWritten == stage = "features" /\ pc = "done"

Snapshot == dir[modeling_file_path(clock)]

\* The Target Variable Creation cell has run.
TargetDone ==
    /\ stage = "features"
    /\ \/ pc \in {"dataset", "save", "done"}
       \/ pc = "halted" /\ error = "NameError"

\* The cell built completion_status from OverallStatus.
TargetFromStatus ==
    /\ TargetDone
    /\ "OverallStatus" \in Columns(df)
    /\ "completion_status" \notin Columns(df)

InputStatus(i) == df.c["OverallStatus"].v[i]

\* C1: no row of the written modeling-ready snapshot has an OverallStatus
\* outside {Completed, Terminated, Suspended, Withdrawn}, whatever columns
\* the input table carries.
C1_SnapshotRowsDefinitive ==
    SnapshotWritten /\ "OverallStatus" \in DOMAIN Snapshot.c =>
        \A i \in 1..Snapshot.n : Snapshot.c["OverallStatus"][i] \in DefinitiveOutcomes

\* C2 as stated: when the target is built from OverallStatus, df_modeling
\* holds exactly the input rows whose input status is definitive, in input
\* order, and completion_status is 1 exactly for input status Completed.
C2_RowsByInputStatus ==
    TargetFromStatus =>
        /\ df_modeling.idx = SelectSeq(df.idx, LAMBDA i : Definitive(InputStatus(i)))
        /\ \A k \in 1..NRows(df_modeling) :
             df_modeling.c["completion_status"].v[k] =
                 IF InputStatus(df_modeling.idx[k]) = Str("Completed")
                 THEN Num(1) ELSE Num(0)

\* The status of an input row once a missing status has taken the column's
\* most frequent status (the first in sort order of several equally frequent
\* ones; still missing when the whole column is missing).
ImputedStatus(i) ==
    IF ~IsNull(InputStatus(i)) THEN InputStatus(i)
    ELSE IF \A j \in 1..NRows(df) : IsNull(InputStatus(j)) THEN NaN
    ELSE Mode(df.c["OverallStatus"].v)

\* C2 amended: the same with the status after missing-value imputation.
C2_RowsByImputedStatus ==
    TargetFromStatus =>
        /\ df_modeling.idx = SelectSeq(df.idx, LAMBDA i : Definitive(ImputedStatus(i)))
        /\ \A k \in 1..NRows(df_modeling) :
             /\ df_modeling.c["OverallStatus"].v[k] = ImputedStatus(df_modeling.idx[k])
             /\ df_modeling.c["completion_status"].v[k] =
                  IF ImputedStatus(df_modeling.idx[k]) = Str("Completed")
                  THEN Num(1) ELSE Num(0)

\* Statuses [Completed, Terminated, Recruiting] gave rows 1, 2 with target [1, 0].
C2_Witness ==
    /\ SnapshotWritten
    /\ TargetFromStatus
    /\ df.c["OverallStatus"].v = <<Str("Completed"), Str("Terminated"), Str("Recruiting")>>
    /\ df_modeling.idx = <<1, 2>>
    /\ df_modeling.c["completion_status"].v = <<Num(1), Num(0)>>

BinaryIndicators ==
    {"is_industry_sponsored", "is_phase_1", "is_phase_2", "is_phase_3", "is_phase_4",
     "is_randomized", "is_double_blind", "is_single_blind", "is_open_label",
     "is_multi_country", "has_us_sites", "completion_status"}

\* The indicator columns of d that the transform derived (the input table
\* did not carry them).
DerivedIndicators(d) == (BinaryIndicators \cap Columns(d)) \ Columns(df)

\* C3: every derived binary indicator column holds only 0 and 1.
C3_IndicatorsBinary ==
    \A d \in {df_clean, df_modeling} :
        \A name \in DerivedIndicators(d) :
            \A i \in 1..NRows(d) : d.c[name].v[i] \in {Num(0), Num(1)}

\* All twelve indicators derived and written.
C3_Witness ==
    /\ SnapshotWritten
    /\ DerivedIndicators(df_modeling) = BinaryIndicators
    /\ NRows(df_modeling) > 0

\* h (in halves) is the median of the values F(i), i in rows (F in halves):
\* fewer than half the values lie on either side of it, or exactly half lie
\* on each side and it is the mean of the two nearest.
IsMedianOf(h, rows, F(_)) ==
    LET n == Cardinality(rows)
        below == {i \in rows : F(i) < h}
        above == {i \in rows : F(i) > h}
    IN  \/ 2 * Cardinality(below) < n /\ 2 * Cardinality(above) < n
        \/ /\ 2 * Cardinality(below) = n /\ 2 * Cardinality(above) = n
           /\ \E lo \in below, hi \in above :
                /\ \A i \in below : F(i) <= F(lo)
                /\ \A i \in above : F(i) >= F(hi)
                /\ 2 * h = F(lo) + F(hi)

\* The Temporal Features cell computed trial_duration_days from the dates.
DurationComputed ==
    /\ "trial_duration_days" \notin Columns(df)
    /\ "trial_duration_days" \in Columns(df_clean)

Rows == 1..NRows(df)

DurationCell(i) == df_clean.c["trial_duration_days"].v[i]

HasComputedDays(i) ==
    IsTs(df_clean.c["StartDate"].v[i]) /\ IsTs(df_clean.c["CompletionDate"].v[i])

\* CompletionDate minus StartDate, in halves of a day.
ComputedDays(i) ==
    2 * (Ordinal(df_clean.c["CompletionDate"].v[i]) - Ordinal(df_clean.c["StartDate"].v[i]))

NonNegativeRows == {i \in Rows : HasComputedDays(i) /\ ComputedDays(i) >= 0}

NegativeRows == {i \in Rows : HasComputedDays(i) /\ ComputedDays(i) < 0}

\* C4: a row with a negative computed duration ends with the median of the
\* non-negative computed durations alone (missing when there is none), and
\* no computed duration is left negative.
C4_NegativeDurationsReplaced ==
    DurationComputed =>
        /\ \A i \in NegativeRows :
             IF NonNegativeRows = {} THEN IsNull(DurationCell(i))
             ELSE /\ IsNum(DurationCell(i))
                  /\ IsMedianOf(DurationCell(i).h, NonNegativeRows, ComputedDays)
        /\ \A i \in Rows : IsNum(DurationCell(i)) => DurationCell(i).h >= 0

\* A negative computed duration was replaced while a valid one existed.
C4_Witness ==
    /\ SnapshotWritten
    /\ DurationComputed
    /\ NegativeRows # {}
    /\ NonNegativeRows # {}
    /\ \A i \in NegativeRows : IsNum(DurationCell(i))

InputEnrollment(i) == df.c["EnrollmentCount"].v[i]

NumericInput(i) ==
    \/ IsNum(InputEnrollment(i))
    \/ IsStr(InputEnrollment(i)) /\ IsIntText(InputEnrollment(i).s)

\* The numeric value of a numeric input entry, in halves.
InputValue(i) ==
    IF IsNum(InputEnrollment(i)) THEN InputEnrollment(i).h
    ELSE 2 * ParseInt(InputEnrollment(i).s)

NumericRows == {i \in Rows : NumericInput(i)}

\* C5: after missing-value handling every EnrollmentCount entry that was
\* missing or non-numeric equals the median of the numeric entries (missing
\* when there is none) and every numeric entry keeps its value.
C5_EnrollmentMedianFill ==
    "EnrollmentCount" \in Columns(df_clean) =>
        \A i \in Rows :
            LET y == df_clean.c["EnrollmentCount"].v[i]
            IN  IF NumericInput(i) THEN y = Half(InputValue(i))
                ELSE IF NumericRows = {} THEN IsNull(y)
                ELSE IsNum(y) /\ IsMedianOf(y.h, NumericRows, InputValue)

\* [10, 20, NaN, 40] became [10, 20, 20, 40].
C5_Witness ==
    /\ SnapshotWritten
    /\ df.c["EnrollmentCount"].v = <<Num(10), Num(20), NaN, Num(40)>>
    /\ df_clean.c["EnrollmentCount"].v = <<Num(10), Num(20), Num(20), Num(40)>>

\* The input text of a date column parses to a calendar date.
ParsableInput(name, i) ==
    /\ name \in Columns(df)
    /\ IsStr(df.c[name].v[i])
    /\ ParseDate(df.c[name].v[i].s) # NaT

InputYear(name, i) == ParseNat(SubSeq(df.c[name].v[i].s, 1, 4))

InputMonth(name, i) == ParseNat(SubSeq(df.c[name].v[i].s, 6, 7))

InputDay(name, i) == ParseNat(SubSeq(df.c[name].v[i].s, 9, 10))

InputDate(name, i) == <<InputYear(name, i), InputMonth(name, i), InputDay(name, i)>>

DateLess(a, b) ==
    \/ a[1] < b[1]
    \/ a[1] = b[1] /\ a[2] < b[2]
    \/ a[1] = b[1] /\ a[2] = b[2] /\ a[3] < b[3]

\* The first day of the month after a's.
NextMonth(a) == IF a[2] < 12 THEN <<a[1], a[2] + 1, 1>> ELSE <<a[1] + 1, 1, 1>>

RECURSIVE DaysFromTo(_, _)
\* The calendar days from a to b (a not after b), counted month by month:
\* within one month the difference of the days, else the days left in a's
\* month plus the days from the first of the next month.
DaysFromTo(a, b) ==
    IF a[1] = b[1] /\ a[2] = b[2] THEN b[3] - a[3]
    ELSE (DaysInMonth(a[1], a[2]) - a[3] + 1) + DaysFromTo(NextMonth(a), b)

\* C6: for a row with a parsable StartDate, start_year / start_month /
\* start_quarter are the year, month and quarter of that date, and with a
\* parsable CompletionDate not earlier the computed trial_duration_days is
\* the number of calendar days between the two.
C6_TemporalFeatures ==
    "start_year" \in Columns(df_clean) =>
        \A i \in Rows :
            ParsableInput("StartDate", i) =>
                /\ df_clean.c["start_year"].v[i] = Num(InputYear("StartDate", i))
                /\ df_clean.c["start_month"].v[i] = Num(InputMonth("StartDate", i))
                /\ \E q \in 1..4 :
                     /\ InputMonth("StartDate", i) \in (3 * q - 2)..(3 * q)
                     /\ df_clean.c["start_quarter"].v[i] = Num(q)
                /\ /\ DurationComputed
                   /\ ParsableInput("CompletionDate", i)
                   /\ ~DateLess(InputDate("CompletionDate", i), InputDate("StartDate", i))
                   => DurationCell(i) =
                        Num(DaysFromTo(InputDate("StartDate", i), InputDate("CompletionDate", i)))

\* 2020-01-01 to 2020-04-10 gave duration 100, start_year 2020, quarter 1.
C6_Witness ==
    /\ SnapshotWritten
    /\ DurationComputed
    /\ \E i \in Rows :
         /\ df.c["StartDate"].v[i] = Str("2020-01-01")
         /\ df.c["CompletionDate"].v[i] = Str("2020-04-10")
         /\ DurationCell(i) = Num(100)
         /\ df_clean.c["start_year"].v[i] = Num(2020)
         /\ df_clean.c["start_quarter"].v[i] = Num(1)

StartFeatureNames == {"start_year", "start_month", "start_quarter"}

\* C7: a row whose input start date does not parse (an unparsable text or a
\* missing value) has start_year, start_month and start_quarter missing.
C7_UnparsableStartMissing ==
    "start_year" \in Columns(df_clean) =>
        \A i \in Rows :
            ~ParsableInput("StartDate", i) =>
                \A name \in StartFeatureNames : IsNull(df_clean.c[name].v[i])

TextColumns == {"BriefTitle", "BriefSummary", "DetailedDescription"}

\* C8: <column>_length of a row is the character length of the row's input
\* value, the field of the loaded file, and 0 when the input value is
\* missing (the empty field).
C8_TextLengthOfInput ==
    \A col \in TextColumns \cap Columns(df) :
        (col \o "_length") \in Columns(df_clean) =>
            \A i \in Rows :
                df_clean.c[col \o "_length"].v[i] =
                    Num(Len(dir[latest_data_path].c[col][i]))

\* The loaded table has no missing cell in the columns it carries.
NoMissingCells == \A name \in Columns(df) : ~AnyNull(df.c[name].v)

\* C9: whatever optional columns are absent from the loaded table, the
\* feature-engineering run raises no error on its way to the snapshot write.
C9_AbsentColumnsNoError ==
    stage = "features" /\ df # NoFrame /\ NoMissingCells => error = "none"

MatchesProcessedPattern(f) ==
    /\ Len(f) >= Len("processed_oncology_trials_.csv")
    /\ SubSeq(f, 1, Len("processed_oncology_trials_")) = "processed_oncology_trials_"
    /\ SubSeq(f, Len(f) - 3, Len(f)) = ".csv"

NoProcessedFile == \A f \in DOMAIN dir : ~MatchesProcessedPattern(f)

\* C10: with no file matching processed_oncology_trials_*.csv the stage
\* halts at the load cell with FileNotFoundError, no transformation has run,
\* and the directory stays as it was (no snapshot is written).
C10_MissingInputHalts ==
    /\ [](NoProcessedFile /\ pc # "load" =>
            /\ pc = "halted" /\ error = "FileNotFoundError"
            /\ df = NoFrame /\ df_clean = NoFrame /\ df_modeling = NoFrame)
    /\ [][NoProcessedFile => dir' = dir]_vars

\* The feature-engineering notebook halted on a directory that holds only an
\* earlier modeling-ready snapshot.
C10_Witness ==
    /\ stage = "features"
    /\ NoProcessedFile
    /\ DOMAIN dir # {}
    /\ pc = "halted"
    /\ error = "FileNotFoundError"

----------------------------------------------------------------------------
(* The transform applied to its own output *)

\* The columns the transform derives.
DerivedColumns ==
    {"start_year", "start_month", "start_quarter", "trial_duration_days",
     "completion_status"} \cup BinaryIndicators
        \cup {col \o "_length" : col \in text_columns}

SameValue(x, y) ==
    \/ IsNull(x) /\ IsNull(y)
    \/ IsNum(x) /\ IsNum(y) /\ x.h = y.h

\* The written snapshot read back as a table, and the transform applied to
\* it.
FirstOutput == ReadCsv(Snapshot)

SecondOutput == FeatureEngineering(FirstOutput)

SameDerived(a, b) ==
    /\ NRows(a) = NRows(b)
    /\ \A col \in DerivedColumns \cap Columns(a) :
         /\ col \in Columns(b)
         /\ \A i \in 1..NRows(a) : SameValue(a.c[col].v[i], b.c[col].v[i])

\* C11: applying the transform to a table that is already its output leaves
\* every derived column (start_year, start_month, start_quarter,
\* trial_duration_days, the indicators, the _length columns,
\* completion_status) with the same value in every row.
C11_ReapplyKeepsDerived ==
    SnapshotWritten =>
        /\ SecondOutput.err = "none"
        /\ SameDerived(FirstOutput, SecondOutput.modeling)

\* The same holds of the snapshots in which no start date is missing.
ReapplyKeepsDerivedWithDates ==
    /\ SnapshotWritten
    /\ "StartDate" \in Columns(FirstOutput)
           => ~AnyNull(FirstOutput.c["StartDate"].v)
    => /\ SecondOutput.err = "none"
       /\ SameDerived(FirstOutput, SecondOutput.modeling)

\* The cells of the run and the transform as one operator agree.
TransformIsTheCells ==
    stage = "features" /\ pc \in {"save", "done"} =>
        /\ FeatureEngineering(df).err = "none"
        /\ FeatureEngineering(df).modeling = df_modeling
        /\ FeatureEngineering(df).clean = df_clean

----------------------------------------------------------------------------
(* Runs in sequence: the snapshots *)

MatchesModelingPattern(f) ==
    /\ Len(f) >= Len(ModelingPrefix) + Len(".csv")
    /\ SubSeq(f, 1, Len(ModelingPrefix)) = ModelingPrefix
    /\ SubSeq(f, Len(f) - 3, Len(f)) = ".csv"

\* The save cell runs in this step.
Saves == stage = "features" /\ pc = "save" /\ pc' = "done"

\* The snapshot files written so far (and the ones found at the start).
Snapshots == {f \in DOMAIN dir : MatchesModelingPattern(f)}

\* C12: in any sequence of feature-engineering runs, a run writes its
\* snapshot under a name no earlier snapshot has, so no earlier snapshot is
\* overwritten, also when two runs save within the same clock second.
C12_SnapshotNameFresh ==
    [][Saves => \A f \in Snapshots : f \in DOMAIN dir' /\ dir'[f] = dir[f]
                                       /\ modeling_file_path(clock') # f]_vars

\* The same holds of the runs that save in a later second than every
\* earlier run.
SnapshotNameFreshInLaterSecond ==
    [][Saves /\ (\A f \in Snapshots : dir[f].mtime < clock')
          => \A f \in Snapshots : f \in DOMAIN dir' /\ dir'[f] = dir[f]
                                    /\ modeling_file_path(clock') # f]_vars

----------------------------------------------------------------------------
(* Model training: the model saved *)

Tasks == {"classification", "regression"}

\* The records passed to save_model under a key.
SavedUnder(task) == {k \in DOMAIN saved : saved[k].key = task}

\* What the training call of the task returned.
Returned(task) == nb[task \o "_results"]

\* The held-out selection metric of a candidate, as training returned it.
Score(task, name) ==
    LET rows == Returned(task).metrics
    IN  rows[CHOOSE k \in DOMAIN rows : rows[k].name = name][SelectionMetric(task)]

CandidateNames(task) == Range(Candidates(task))

\* The candidates whose model is the one in the record.
CandidatesSaved(rec) ==
    {name \in CandidateNames(rec.key) : Returned(rec.key).models[name] = rec.info.model}

\* C13: whatever metrics training returns, the model saved for the
\* classification task is a candidate whose f1_score is at least that of
\* every other candidate, and the model saved for the regression task is a
\* candidate whose r2_score is at least that of every other candidate.
C13_BestMetricSaved ==
    \A k \in DOMAIN saved :
      /\ CandidatesSaved(saved[k]) # {}
      /\ \A name \in CandidatesSaved(saved[k]) :
           \A other \in CandidateNames(saved[k].key) :
             Score(saved[k].key, name) >= Score(saved[k].key, other)

\* Both tasks saved a model, each chosen among candidates of different
\* scores, the first candidate enumerated not being the best.
C13_Witness ==
    /\ stage = "training" /\ pc = "done" /\ Len(saved) = 2
    /\ \A task \in Tasks :
         \E name \in CandidateNames(task) :
           Score(task, Candidates(task)[1]) < Score(task, name)

\* The candidates that share the highest selection metric of the task.
Best(task) ==
    {name \in CandidateNames(task) :
       \A other \in CandidateNames(task) : Score(task, name) >= Score(task, other)}

\* The one of them enumerated first.
FirstBest(task) ==
    Candidates(task)[CHOOSE k \in DOMAIN Candidates(task) :
                       /\ Candidates(task)[k] \in Best(task)
                       /\ \A j \in 1..(k - 1) : Candidates(task)[j] \notin Best(task)]

\* C14: when two or more candidates share the highest selection metric,
\* the best model selected and saved is the one of them that comes first
\* in the enumeration order of the candidates.
C14_TieFirstEnumerated ==
    \A k \in DOMAIN saved :
      Cardinality(Best(saved[k].key)) >= 2 =>
        /\ nb["best_" \o saved[k].key \o "_model_name"] = FirstBest(saved[k].key)
        /\ saved[k].info.model = Returned(saved[k].key).models[FirstBest(saved[k].key)]

\* The metrics training returned for a candidate.
ReturnedMetrics(task, name) == MetricsOf(Returned(task).metrics, name)

\* The record holds the parts of one task and of one candidate, the one
\* selected.
RecordOfSelected(rec) ==
    LET name == nb["best_" \o rec.key \o "_model_name"]
    IN  /\ rec.key \in Tasks
        /\ name \in CandidateNames(rec.key)
        /\ rec.info.model = Returned(rec.key).models[name]
        /\ rec.info.metrics = ReturnedMetrics(rec.key, name)
        /\ rec.info.preprocessor = Returned(rec.key).preprocessor
        /\ rec.info.feature_names = Columns(nb["X_" \o rec.key])

\* C17: each record passed to save_model holds the model and the metrics of
\* the same selected candidate, the preprocessor returned by that task's
\* training call and the feature names of that task's feature matrix; a
\* completed training run has saved exactly one record under
\* 'classification' and exactly one under 'regression'.
C17_RecordsConsistent ==
    /\ \A k \in DOMAIN saved : RecordOfSelected(saved[k])
    /\ stage = "training" /\ pc = "done" =>
         /\ Len(saved) = 2
         /\ \A task \in Tasks : Cardinality(SavedUnder(task)) = 1

\* A completed training run whose selected candidates are not the first
\* ones enumerated.
C17_Witness ==
    /\ stage = "training" /\ pc = "done"
    /\ \A task \in Tasks :
         /\ SavedUnder(task) # {}
         /\ nb["best_" \o task \o "_model_name"] # Candidates(task)[1]

----------------------------------------------------------------------------
(* The stages in sequence: feature engineering, then model training *)

\* The training notebook has loaded the snapshot the feature-engineering
\* stage before it wrote.
LoadedStageSnapshot ==
    /\ stage = "training"
    /\ "modeling_path" \in DOMAIN nb
    /\ nb["modeling_path"] = modeling_file_path(clock)

\* The columns the feature-engineering stage produces as targets.
FeatureTargets == {"completion_status", "trial_duration_days"}

\* C19: the training stage can consume the snapshot the feature-engineering
\* stage writes: no column it reads by name is missing from it (no
\* KeyError), and the target columns of the feature-engineering stage are
\* not among the feature columns passed to training.
C19_TrainingConsumesSnapshot ==
    LoadedStageSnapshot =>
        /\ error # "KeyError"
        /\ "feature_cols" \in DOMAIN nb => nb["feature_cols"] \cap FeatureTargets = {}

\* The second half alone: it fails on a snapshot that carries the training
\* notebook's column names as well.
TargetsNotFeatures ==
    LoadedStageSnapshot /\ "feature_cols" \in DOMAIN nb =>
        nb["feature_cols"] \cap FeatureTargets = {}

----------------------------------------------------------------------------
(* Two tables with one trial in common: the trial's derived values *)

\* The other table of the pair, as the load cell reads it.
OtherTable == ReadCsv(dir[ProcessedName(0)])

OtherOutput == FeatureEngineering(OtherTable)

\* The value the cells fill the missing entries of a column with: the
\* median of a numeric column, the most frequent value of a text column.
FillValue(col) ==
    IF IsNumericDtype(col.dtype) THEN Median(col.v)
    ELSE IF col.dtype = "object" /\ \E i \in DOMAIN col.v : ~IsNull(col.v[i])
    THEN Mode(col.v)
    ELSE NaN

\* The median the missing and negative durations are filled with.
DurationMedian(d) ==
    IF {"StartDate", "CompletionDate"} \subseteq Columns(d)
    THEN Median(NegativeToNaN(DaysBetween(d.c["CompletionDate"], d.c["StartDate"])).v)
    ELSE NaN

\* The two tables agree on every median and mode: of the columns as loaded
\* (EnrollmentCount as a number) and of the computed durations.
AggregatesAgree(a, b, aclean, bclean) ==
    /\ \A name \in Columns(a) :
         FillValue(IF name = "EnrollmentCount" THEN ToNumeric(a.c[name]) ELSE a.c[name])
           = FillValue(IF name = "EnrollmentCount" THEN ToNumeric(b.c[name]) ELSE b.c[name])
    /\ DurationMedian(aclean) = DurationMedian(bclean)

\* The run on the later table has derived its columns, and so has the
\* transform on the other table.
BothDerived ==
    /\ stage = "features" /\ pc \in {"save", "done"}
    /\ ProcessedName(0) \in DOMAIN dir
    /\ latest_data_path = ProcessedName(1)
    /\ OtherOutput.err = "none"

SameTrialDerived ==
    \A col \in DerivedColumns \cap Columns(df_clean) :
      /\ col \in Columns(OtherOutput.clean)
      /\ SameValue(df_clean.c[col].v[1], OtherOutput.clean.c[col].v[1])

\* C16: for two tables that agree on one trial's row and on every
\* column-wide median and mode used for imputation, the trial's derived
\* columns (temporal features, duration, indicators, text lengths,
\* completion_status) are equal in both outputs.
C16_NoCrossRowLeak ==
    BothDerived /\ AggregatesAgree(df, OtherTable, df_clean, OtherOutput.clean)
        => SameTrialDerived

\* The same holds of the pairs of tables read with the same column types.
NoCrossRowLeakSameTypes ==
    /\ BothDerived /\ AggregatesAgree(df, OtherTable, df_clean, OtherOutput.clean)
    /\ \A name \in Columns(df) : df.c[name].dtype = OtherTable.c[name].dtype
    => SameTrialDerived

----------------------------------------------------------------------------
(* The binary indicators and their source values *)

\* The indicators derived by substring containment: <<indicator, source
\* column, substring>>.
SubstringIndicators ==
    {<<"is_phase_1", "Phase", "Phase 1">>, <<"is_phase_2", "Phase", "Phase 2">>,
     <<"is_phase_3", "Phase", "Phase 3">>, <<"is_phase_4", "Phase", "Phase 4">>,
     <<"is_randomized", "StudyDesign", "Randomized">>,
     <<"is_double_blind", "StudyDesign", "Double Blind">>,
     <<"is_single_blind", "StudyDesign", "Single Blind">>,
     <<"is_open_label", "StudyDesign", "Open Label">>,
     <<"is_multi_country", "LocationCountry", ",">>,
     <<"has_us_sites", "LocationCountry", "United States">>}

RECURSIVE Occurs(_, _)
\* pat occurs in s, letter case included: s starts with it, or it occurs
\* in s without its first character.
Occurs(s, pat) ==
    IF Len(s) < Len(pat) THEN FALSE
    ELSE SubSeq(s, 1, Len(pat)) = pat \/ Occurs(SubSeq(s, 2, Len(s)), pat)

\* The indicators agree with the source values of the table d, row by row.
IndicatorsFollow(d) ==
    /\ \A ind \in SubstringIndicators :
         ind[1] \in DerivedIndicators(df_clean) =>
           \A i \in 1..NRows(df_clean) :
             df_clean.c[ind[1]].v[i] =
               IF IsStr(d.c[ind[2]].v[i]) /\ Occurs(d.c[ind[2]].v[i].s, ind[3])
               THEN Num(1) ELSE Num(0)
    /\ "is_industry_sponsored" \in DerivedIndicators(df_clean) =>
         \A i \in 1..NRows(df_clean) :
           df_clean.c["is_industry_sponsored"].v[i] =
             IF d.c["LeadSponsorClass"].v[i] = Str("INDUSTRY") THEN Num(1) ELSE Num(0)

\* C18: each binary indicator is 1 exactly when its source value, the value
\* the Categorical Features cell reads from the column, contains the
\* designated substring, letter case included (is_industry_sponsored:
\* equals 'INDUSTRY'), and 0 otherwise.
C18_IndicatorsFollowSource == IndicatorsFollow(df_clean)

\* The same against the values of the input file, where a missing value has
\* not yet taken the column's most frequent value.
IndicatorsFollowInput == IndicatorsFollow(df)

\* A written table with a row of two phases, a row whose phase is in lower
\* case, and the indicators 1, 1 and 0 for them.
C18_Witness ==
    /\ SnapshotWritten
    /\ {"is_phase_1", "is_phase_2", "is_phase_3"} \subseteq DerivedIndicators(df_clean)
    /\ \E i, j \in 1..NRows(df_clean) :
         /\ df.c["Phase"].v[i] = Str("Phase 1/Phase 2")
         /\ df_clean.c["is_phase_1"].v[i] = Num(1)
         /\ df_clean.c["is_phase_2"].v[i] = Num(1)
         /\ df.c["Phase"].v[j] = Str("phase 3")
         /\ df_clean.c["is_phase_3"].v[j] = Num(0)

----------------------------------------------------------------------------
(* The input file of a run *)

\* C20: in any sequence of feature-engineering runs, the file a run loaded
\* is never a modeling-ready snapshot, and no step of the run writes to it
\* or changes it (content or modification time).
C20_InputNotSnapshotNorModified ==
    /\ [](latest_data_path # "" => ~MatchesModelingPattern(latest_data_path))
    /\ [][latest_data_path # "" =>
            /\ latest_data_path \in DOMAIN dir'
            /\ dir'[latest_data_path] = dir[latest_data_path]]_vars

\* A later feature-engineering run has loaded its input and saved, while a
\* snapshot newer than that input, written by a run, is in the directory.
C20_Witness ==
    /\ stage = "features"
    /\ run >= 2
    /\ pc = "done"
    /\ latest_data_path # ""
    /\ \E f \in Snapshots : dir[f].mtime > dir[latest_data_path].mtime

----------------------------------------------------------------------------
(* The training subsets *)

\* The Prepare Features and Target Variables cell has bound its subsets.
SubsetsBound ==
    /\ stage = "training"
    /\ {"df_classification", "df_regression", "y_classification"} \subseteq DOMAIN nb

\* The status of the row of the modeling dataset with index label i.
ModelingStatus(i) ==
    df_modeling.c["overall_status"].v[CHOOSE k \in 1..NRows(df_modeling) :
                                        df_modeling.idx[k] = i]

\* The rows of the subset d are rows of the modeling dataset, with the
\* values the modeling dataset has in its columns.
DrawnFromModeling(d) ==
    \A k \in 1..NRows(d) :
      \E j \in 1..NRows(df_modeling) :
        /\ df_modeling.idx[j] = d.idx[k]
        /\ \A name \in Columns(df_modeling) : d.c[name].v[k] = df_modeling.c[name].v[j]

\* The classification subset holds the rows of the modeling dataset whose
\* status is in statuses, in their order, with target 1 exactly for
\* Completed; the regression subset is drawn from the modeling dataset.
SubsetsFollow(statuses) ==
    SubsetsBound =>
        /\ nb["df_classification"].idx =
             SelectSeq(df_modeling.idx,
                       LAMBDA i : \E st \in statuses : ModelingStatus(i) = Str(st))
        /\ \A k \in 1..NRows(nb["df_classification"]) :
             nb["y_classification"].v[k] =
               IF ModelingStatus(nb["df_classification"].idx[k]) = Str("Completed")
               THEN Num(1) ELSE Num(0)
        /\ DrawnFromModeling(nb["df_classification"])
        /\ DrawnFromModeling(nb["df_regression"])

\* C21: the classification target is 1 for Completed and 0 for Terminated,
\* Suspended and Withdrawn, every row of the modeling dataset with one of
\* these four statuses is in the classification subset, and the regression
\* subset is drawn from the same modeling dataset.
C21_ClassificationSubsetDefinitive == SubsetsFollow(DefinitiveOutcomes)

\* The same for the two statuses Completed and Terminated alone.
SubsetCompletedOrTerminated == SubsetsFollow({"Completed", "Terminated"})

----------------------------------------------------------------------------
(* The durations of the written snapshot *)

\* No trial_duration_days field of the written snapshot is a negative number.
NoNegativeDuration ==
    SnapshotWritten /\ "trial_duration_days" \in DOMAIN Snapshot.c =>
        \A i \in 1..Snapshot.n :
          LET field == Snapshot.c["trial_duration_days"][i]
          IN  IsNumText(field) => ParseNum(field).h >= 0

\* C22: for every input table, the tables that already carry a
\* trial_duration_days column when loaded included, no trial_duration_days
\* value of the modeling-ready output is negative.
C22_NoNegativeDurationInOutput == NoNegativeDuration

\* The same for the tables whose trial_duration_days the Temporal Features
\* cell computes.
NoNegativeComputedDuration == DurationComputed => NoNegativeDuration

----------------------------------------------------------------------------
(* The order of the two artifacts *)

\* C23: in the training stage the classification artifact is saved before
\* regression training starts; a run whose regression cell fails halts with
\* the classification artifact saved and no regression artifact; a
\* regression artifact is saved only after a classification artifact.
C23_ClassificationSavedFirst ==
    /\ [](stage = "training" /\ pc = "regression" =>
            SavedUnder("classification") # {})
    /\ [][pc = "regression" /\ pc' = "halted" =>
            /\ SavedUnder("classification")' # {}
            /\ SavedUnder("regression")' = {}]_vars
    /\ [](\A k \in SavedUnder("regression") :
            \E j \in SavedUnder("classification") : j < k)

\* The regression cell failed on a missing target value after the
\* classification cell had saved its artifact.
C23_Witness ==
    /\ stage = "training"
    /\ pc = "halted"
    /\ error = "ValueError"
    /\ SavedUnder("classification") # {}
    /\ SavedUnder("regression") = {}

\* Both artifacts saved, the classification one first.
BothSavedInOrder ==
    /\ stage = "training"
    /\ pc = "done"
    /\ Len(saved) = 2
    /\ saved[1].key = "classification"
    /\ saved[2].key = "regression"

====
